---- MODULE Spec2Model ----
(***************************************************************************)
(* Webhook authentication of src/main.py: RevolutWebhookManager            *)
(* (validate_timestamp, validate_signature, setup_webhook,                 *)
(* process_webhook) and the endpoint handle_revolut_webhook.                *)
(*                                                                         *)
(* Python strings are sequences of one-character strings; an HMAC-SHA256   *)
(* hex digest is one token that is an injective image of (key, message).   *)
(* Instants are integer milliseconds.                                      *)
(***************************************************************************)
EXTENDS Integers, Sequences, FiniteSets, TLC

VARIABLES global_webhook_manager, now, call, secret_captured

vars == <<global_webhook_manager, now, call, secret_captured>>

(***************************************************************************)
(* Bounds of the model                                                     *)
(***************************************************************************)
MaxTicks == 1
MaxCandidates == 2

\* the instant of the first clock reading, in milliseconds
Now0 == 1000000

(***************************************************************************)
(* Python values                                                           *)
(***************************************************************************)
None == <<"None">>

\* truth value of a str-or-None object: `not x` is Falsy(x)
Falsy(x) == x = None \/ x = <<>>

\* normal returns of True and of None, and a function that was not called
ReturnNone == [exc |-> "none", status |-> 0, detail |-> "None"]

NotCalled == [exc |-> "not called", status |-> 0, detail |-> ""]

ReturnTrue == [exc |-> "none", status |-> 0, detail |-> "True"]

HTTPException(status_code, detail) ==
  [exc |-> "HTTPException", status |-> status_code, detail |-> detail]

Raise(type) == [exc |-> type, status |-> 0, detail |-> ""]

Digit == {"0", "1", "2", "3", "4", "5", "6", "7", "8", "9"}

DigitVal(c) ==
  CASE c = "0" -> 0 [] c = "1" -> 1 [] c = "2" -> 2 [] c = "3" -> 3
    [] c = "4" -> 4 [] c = "5" -> 5 [] c = "6" -> 6 [] c = "7" -> 7
    [] c = "8" -> 8 [] c = "9" -> 9

DigitChar(d) == <<"0", "1", "2", "3", "4", "5", "6", "7", "8", "9">>[d + 1]

Whitespace == {" "}

RECURSIVE lstrip(_)
lstrip(s) ==
  IF s # <<>> /\ Head(s) \in Whitespace THEN lstrip(Tail(s)) ELSE s

RECURSIVE rstrip(_)
rstrip(s) ==
  IF s # <<>> /\ s[Len(s)] \in Whitespace
  THEN rstrip(SubSeq(s, 1, Len(s) - 1))
  ELSE s

\* str.strip()
strip(s) == lstrip(rstrip(s))

RECURSIVE StripZeros(_)
StripZeros(s) ==
  IF s # <<>> /\ Head(s) = "0" THEN StripZeros(Tail(s)) ELSE s

\* int(s): surrounding whitespace and one leading "-" are allowed, then one
\* or more digits.  The value is kept as sign and magnitude, the magnitude
\* as its decimal digits without leading zeros (Python integers are
\* unbounded).
int(s) ==
  LET t == strip(s)
      neg == t # <<>> /\ Head(t) = "-"
      d == IF neg THEN Tail(t) ELSE t
  IN IF d # <<>> /\ \A i \in 1..Len(d) : d[i] \in Digit
     THEN [ok |-> TRUE, neg |-> neg /\ StripZeros(d) # <<>>,
           mag |-> StripZeros(d)]
     ELSE [ok |-> FALSE, neg |-> FALSE, mag |-> <<>>]

RECURSIVE MagVal(_)
MagVal(m) ==
  IF m = <<>> THEN 0 ELSE 10 * MagVal(SubSeq(m, 1, Len(m) - 1)) + DigitVal(m[Len(m)])

RECURSIVE LexLess(_, _)
LexLess(a, b) ==
  /\ a # <<>>
  /\ \/ DigitVal(Head(a)) < DigitVal(Head(b))
     \/ Head(a) = Head(b) /\ LexLess(Tail(a), Tail(b))

\* a < b for magnitudes written in decimal without leading zeros
MagLess(a, b) == Len(a) < Len(b) \/ (Len(a) = Len(b) /\ LexLess(a, b))

\* str(n) for a natural number n
RECURSIVE str(_)
str(n) == IF n < 10 THEN <<DigitChar(n)>> ELSE Append(str(n \div 10), DigitChar(n % 10))

Abs(x) == IF x < 0 THEN -x ELSE x

(***************************************************************************)
(* validate_timestamp                                                      *)
(***************************************************************************)
MsPerSecond == 1000
ToleranceSeconds == 300

\* datetime.max and datetime.min as milliseconds from the epoch (magnitudes)
MaxDatetimeMs == <<"2","5","3","4","0","2","3","0","0","7","9","9","9","9","9">>
MinDatetimeMs == <<"6","2","1","3","5","5","9","6","8","0","0","0","0","0">>

\* datetime.fromtimestamp(int(timestamp_header) / 1000, tz=utc): the set of
\* exception types the conversion can end with ("none": it returns).  Out
\* of the datetime range it raises ValueError; from 10^19 ms on, where the
\* platform's gmtime and time_t give up, which of ValueError, OSError and
\* OverflowError is raised depends on the platform; from 10^22 ms on it is
\* OverflowError.
fromtimestamp(p) ==
  IF ~MagLess(IF p.neg THEN MinDatetimeMs ELSE MaxDatetimeMs, p.mag)
  THEN {"none"}
  ELSE IF Len(p.mag) <= 19 THEN {"ValueError"}
  ELSE IF Len(p.mag) <= 22 THEN {"ValueError", "OSError", "OverflowError"}
  ELSE {"OverflowError"}

\* a comparison of the wrong strictness
time_diff_too_old_strict(p, current_time) ==
  IF Len(p.mag) > 9
  THEN TRUE
  ELSE Abs(current_time - (IF p.neg THEN -MagVal(p.mag) ELSE MagVal(p.mag)))
         >= ToleranceSeconds * MsPerSecond

\* time_diff > 300 for time_diff = abs((current_time - webhook_time)
\* .total_seconds()), computed in milliseconds.  The clock of the model
\* stays below 10^9 - 300000 ms, so a timestamp of ten digits or more is
\* more than 300 s away from it.
time_diff_too_old(p, current_time) ==
  IF Len(p.mag) > 9
  THEN TRUE
  ELSE Abs(current_time - (IF p.neg THEN -MagVal(p.mag) ELSE MagVal(p.mag)))
         > ToleranceSeconds * MsPerSecond

\* The set of outcomes of validate_timestamp(timestamp_header) at the
\* instant current_time.
validate_timestamp(timestamp_header, current_time) ==
  IF Falsy(timestamp_header)
  THEN {HTTPException(400, "Missing timestamp header")}
  ELSE LET p == int(timestamp_header)
       IN IF ~p.ok
          THEN {HTTPException(400, "Invalid timestamp format")}
          ELSE {CASE e = "none" ->
                       IF time_diff_too_old(p, current_time)
                       THEN HTTPException(400, "Webhook timestamp is too old")
                       ELSE ReturnTrue
                  [] e = "ValueError" ->
                       HTTPException(400, "Invalid timestamp format")
                  [] OTHER -> Raise(e)
                : e \in fromtimestamp(p)}

(***************************************************************************)
(* validate_signature                                                      *)
(***************************************************************************)
NonAscii == {"\\xe9"}

\* f"{x}"
fstr(x) == IF x = None THEN <<"N", "o", "n", "e">> ELSE x

RECURSIVE Flat(_)
Flat(s) == IF s = <<>> THEN "" ELSE Head(s) \o Flat(Tail(s))

\* hmac.new(key, msg, sha256).hexdigest(): one token, injective in
\* (key, msg) for keys without ";"
hexdigest(key, msg) == "hmac_sha256(" \o Flat(key) \o ";" \o Flat(msg) \o ")"

\* a signing string without the timestamp
payload_to_sign_body_only(timestamp_header, raw_payload) ==
  <<"v", "1", ".">> \o raw_payload

payload_to_sign(timestamp_header, raw_payload) ==
  <<"v", "1", ".">> \o fstr(timestamp_header) \o <<".">> \o raw_payload

expected_signature(secret, timestamp_header, raw_payload) ==
  <<"v", "1", "=">>
    \o <<hexdigest(secret, payload_to_sign(timestamp_header, raw_payload))>>

\* s.split(",")
RECURSIVE split(_)
split(s) ==
  IF \E i \in 1..Len(s) : s[i] = ","
  THEN LET i == CHOOSE j \in 1..Len(s) :
                  s[j] = "," /\ \A k \in 1..(j - 1) : s[k] # ","
       IN <<SubSeq(s, 1, i - 1)>> \o split(SubSeq(s, i + 1, Len(s)))
  ELSE <<s>>

received_signatures(signature_header) ==
  LET parts == split(signature_header)
  IN [i \in 1..Len(parts) |-> strip(parts[i])]

IsAscii(s) == \A i \in 1..Len(s) : s[i] \notin NonAscii

\* the loop over received_signatures: hmac.compare_digest raises TypeError
\* on a str with a non-ASCII character
RECURSIVE compare_loop(_, _)
compare_loop(expected, received) ==
  IF received = <<>>
  THEN HTTPException(400, "Invalid signature")
  ELSE IF ~IsAscii(expected) \/ ~IsAscii(Head(received))
       THEN Raise("TypeError")
       ELSE IF expected = Head(received)
            THEN ReturnTrue
            ELSE compare_loop(expected, Tail(received))

\* validate_signature without the check of the secret: bytes(None, "utf-8")
\* raises TypeError inside the try block
validate_signature_no_secret_check(signature_header, timestamp_header, raw_payload, secret) ==
  IF Falsy(signature_header)
  THEN HTTPException(400, "Missing signature header")
  ELSE IF secret = None
       THEN HTTPException(400, "Signature validation failed")
       ELSE LET r == compare_loop(
                       expected_signature(secret, timestamp_header, raw_payload),
                       received_signatures(signature_header))
            IN IF r.exc = "none"
               THEN r
               ELSE HTTPException(400, "Signature validation failed")

\* validate_signature with self.webhook_signing_secret = secret
validate_signature(signature_header, timestamp_header, raw_payload, secret) ==
  IF Falsy(signature_header)
  THEN HTTPException(400, "Missing signature header")
  ELSE IF Falsy(secret)
       THEN HTTPException(500, "Missing webhook signing secret")
       ELSE LET r == compare_loop(
                       expected_signature(secret, timestamp_header, raw_payload),
                       received_signatures(signature_header))
            IN \* except Exception: every exception of the try block,
               \* the HTTPException of line 134 included
               IF r.exc = "none"
               THEN r
               ELSE HTTPException(400, "Signature validation failed")

(***************************************************************************)
(* process_webhook                                                         *)
(***************************************************************************)
\* headers_dict.get(name)
get(headers_dict, name) ==
  IF name \in DOMAIN headers_dict THEN headers_dict[name] ELSE None

NoTrace ==
  [ts_result |-> NotCalled, sig_entered |-> FALSE, sig_result |-> NotCalled,
   processed |-> FALSE, result |-> NotCalled]

\* the signature validated before the timestamp
process_webhook_signature_first(headers_dict, raw_payload, secret, current_time) ==
  LET timestamp_header == get(headers_dict, "revolut-request-timestamp")
      signature_header == get(headers_dict, "revolut-signature")
      sr == validate_signature(signature_header, timestamp_header,
                               raw_payload, secret)
  IN IF sr.exc # "none"
     THEN {[ts_result |-> NotCalled, sig_entered |-> TRUE, sig_result |-> sr,
            processed |-> FALSE, result |-> sr]}
     ELSE {[ts_result |-> tr, sig_entered |-> TRUE, sig_result |-> sr,
            processed |-> tr.exc = "none",
            result |-> IF tr.exc = "none" THEN ReturnNone ELSE tr]
           : tr \in validate_timestamp(timestamp_header, current_time)}

\* the result of validate_signature not propagated
process_webhook_ignores_signature(headers_dict, raw_payload, secret, current_time) ==
  LET timestamp_header == get(headers_dict, "revolut-request-timestamp")
      signature_header == get(headers_dict, "revolut-signature")
  IN {IF tr.exc # "none"
      THEN [ts_result |-> tr, sig_entered |-> FALSE, sig_result |-> NotCalled,
            processed |-> FALSE, result |-> tr]
      ELSE [ts_result |-> tr, sig_entered |-> TRUE,
            sig_result |-> validate_signature(signature_header,
                                timestamp_header, raw_payload, secret),
            processed |-> TRUE, result |-> ReturnNone]
      : tr \in validate_timestamp(timestamp_header, current_time)}

\* The runs of process_webhook with self.webhook_signing_secret = secret at
\* the instant current_time: what each validation did, whether the payload
\* was reached (lines 225-226) and how the call ended.
process_webhook(headers_dict, raw_payload, secret, current_time) ==
  LET timestamp_header == get(headers_dict, "revolut-request-timestamp")
      signature_header == get(headers_dict, "revolut-signature")
  IN {IF tr.exc # "none"
      THEN [ts_result |-> tr, sig_entered |-> FALSE, sig_result |-> NotCalled,
            processed |-> FALSE, result |-> tr]
      ELSE LET sr == validate_signature(signature_header, timestamp_header,
                                        raw_payload, secret)
           IN [ts_result |-> tr, sig_entered |-> TRUE, sig_result |-> sr,
               processed |-> sr.exc = "none",
               result |-> IF sr.exc = "none" THEN ReturnNone ELSE sr]
      : tr \in validate_timestamp(timestamp_header, current_time)}

(***************************************************************************)
(* handle_revolut_webhook                                                  *)
(***************************************************************************)
NoneObj == [type |-> "NoneType"]

\* json.loads(raw_payload_str) succeeds; bodies are written with "{", "}"
\* and digits
json_loads_ok(raw_payload) ==
  \/ raw_payload = <<"{", "}">>
  \/ /\ raw_payload # <<>>
     /\ \A i \in 1..Len(raw_payload) : raw_payload[i] \in Digit
     /\ (Len(raw_payload) = 1 \/ Head(raw_payload) # "0")

\* str(e): "<status_code>: <detail>" for an HTTPException, the message for
\* a built-in exception
str_exc(e) ==
  CASE e.exc = "HTTPException" -> ToString(e.status) \o ": " \o e.detail
    [] e.exc = "OverflowError" -> "timestamp out of range for platform time_t"
    [] e.exc = "OSError" -> "[Errno 75] Value too large for defined data type"
    [] OTHER -> e.detail

Response(status_code, detail) == [status_code |-> status_code, detail |-> detail]

\* The runs of handle_revolut_webhook for a request: the run of
\* process_webhook inside it (NoTrace when it is not called) and the
\* response.
handle_revolut_webhook(request, manager, current_time) ==
  IF ~json_loads_ok(request.body)
  THEN {[trace |-> NoTrace, response |-> Response(400, "Invalid JSON payload")]}
  ELSE IF manager = NoneObj
       THEN {[trace |-> NoTrace,
              response |-> Response(500,
                  str_exc(HTTPException(500, "Webhook manager not initialized")))]}
       ELSE {[trace |-> t,
              response |-> IF t.result.exc = "none"
                           THEN Response(200, "{\"status\": 204}")
                           ELSE Response(500, str_exc(t.result))]
             : t \in process_webhook(request.headers, request.body,
                                     manager.webhook_signing_secret,
                                     current_time)}

(***************************************************************************)
(* setup_webhook                                                           *)
(***************************************************************************)
\* line 204 is reached
captures(resp) ==
  ~resp.raises /\ resp.status_code = 200 /\ resp.json_ok /\ resp.has_secret

\* the secret taken from any response that carries one
setup_webhook_secret_any_status(secret, resp) ==
  IF ~resp.raises /\ resp.json_ok /\ resp.has_secret
  THEN resp.signing_secret
  ELSE secret

\* self.webhook_signing_secret after setup_webhook, for the response resp of
\* requests.post
setup_webhook_secret(secret, resp) ==
  IF captures(resp) THEN resp.signing_secret ELSE secret

\* the value setup_webhook returns: the result or an error dictionary
setup_webhook_return(resp) ==
  IF resp.raises \/ (resp.status_code = 200 /\ ~resp.json_ok)
       \/ (captures(resp) /\ resp.signing_secret = None)
  THEN "error: exception"
  ELSE IF resp.status_code = 200 THEN "result" ELSE "error: response.text"

(***************************************************************************)
(* Inputs                                                                  *)
(***************************************************************************)
K1 == <<"k", "1">>
K2 == <<"k", "2">>
Keys == {K1, K2}

Body1 == <<"{", "}">>
Body2 == <<"1">>
BadBody == <<"{">>

\* timestamp headers on the two sides of the tolerance, around Now0
TsFresh == str(Now0)
TsEdge == str(Now0 - ToleranceSeconds * MsPerSecond)
TsFutureEdge == str(Now0 + ToleranceSeconds * MsPerSecond)

RECURSIVE Zeros(_)
Zeros(n) == IF n = 0 THEN <<>> ELSE <<"0">> \o Zeros(n - 1)

TsHuge == <<"1">> \o Zeros(22)

TimestampHeaders ==
  {None, <<>>, <<" ">>, <<"x">>, <<"1", "x">>, <<"-">>, <<"-", "1">>,
   TsFresh, <<" ">> \o TsFresh \o <<" ">>, <<"0">> \o TsEdge,
   TsEdge, str(Now0 - ToleranceSeconds * MsPerSecond - 1),
   str(Now0 - (ToleranceSeconds + 1) * MsPerSecond),
   TsFutureEdge, str(Now0 + ToleranceSeconds * MsPerSecond + 1),
   str(Now0 + ToleranceSeconds * MsPerSecond + 2),
   str(Now0 + (ToleranceSeconds + 1) * MsPerSecond),
   MaxDatetimeMs, <<"-">> \o MinDatetimeMs,
   <<"1">> \o Zeros(15), <<"-", "1">> \o Zeros(15), <<"1">> \o Zeros(20),
   TsHuge, <<"-">> \o TsHuge}

EndpointTimestamps ==
  {None, <<"x">>, TsFresh, TsEdge,
   str(Now0 - ToleranceSeconds * MsPerSecond - 1), TsHuge}

\* the tag the provider sends for a notification: "v1=" and the hex HMAC of
\* "v1.<timestamp>.<body>" under the signing secret
revolut_signature(key, timestamp, body) ==
  <<"v", "1", "=">>
    \o <<hexdigest(key, <<"v", "1", ".">> \o timestamp \o <<".">> \o body)>>

NonAsciiCandidate == <<"v", "1", "=", "\\xe9">>

CandidatePool(timestamp, body) ==
  {revolut_signature(k, timestamp, body) : k \in Keys} \cup {NonAsciiCandidate}

RECURSIVE Join(_)
Join(cs) ==
  IF Len(cs) = 1 THEN cs[1] ELSE cs[1] \o <<" ", ",", " ">> \o Join(Tail(cs))

\* headers of up to MaxCandidates candidates
CandidateLists(timestamp, body) ==
  UNION {[1..n -> CandidatePool(timestamp, body)] : n \in 1..MaxCandidates}

SignatureTimestamps == {TsFresh, TsEdge}
SignatureBodies == {Body1, Body2}

SignatureHeaders(timestamp, body) ==
  {None, <<>>, <<" ">>, <<" ", " ">>}
    \cup {revolut_signature(k, t, b) :
            k \in Keys, t \in SignatureTimestamps, b \in SignatureBodies}
    \cup {Join(cs) : cs \in CandidateLists(timestamp, body)}

EndpointSignatures(timestamp, body) ==
  {None, <<>>, <<" ">>,
   revolut_signature(K1, timestamp, body),
   revolut_signature(K2, timestamp, body),
   Join(<<NonAsciiCandidate, revolut_signature(K1, timestamp, body)>>),
   Join(<<revolut_signature(K2, timestamp, body),
          revolut_signature(K1, timestamp, body)>>)}

Headers(timestamp, signature) ==
  [n \in {m \in {"revolut-request-timestamp", "revolut-signature"} :
            IF m = "revolut-request-timestamp"
            THEN timestamp # None ELSE signature # None}
     |-> IF n = "revolut-request-timestamp" THEN timestamp ELSE signature]

Requests ==
  UNION {{[headers |-> Headers(t, s), body |-> b] :
            s \in EndpointSignatures(fstr(t), b)} :
         t \in EndpointTimestamps, b \in {Body1, Body2, BadBody}}

\* responses of the provider to POST /api/1.0/webhooks; raises: requests.post
\* raised; json_ok: response.json() parses; signing_secret None: JSON null
SetupResponses ==
  {[raises |-> TRUE, status_code |-> 0, json_ok |-> FALSE,
    has_secret |-> FALSE, signing_secret |-> None]}
    \cup {[raises |-> FALSE, status_code |-> c, json_ok |-> FALSE,
           has_secret |-> FALSE, signing_secret |-> None] : c \in {200, 401}}
    \cup {[raises |-> FALSE, status_code |-> c, json_ok |-> TRUE,
           has_secret |-> FALSE, signing_secret |-> None] : c \in {200, 401}}
    \cup {[raises |-> FALSE, status_code |-> c, json_ok |-> TRUE,
           has_secret |-> TRUE, signing_secret |-> v] :
            c \in {200, 401}, v \in Keys \cup {<<>>, None}}

(***************************************************************************)
(* State machine                                                           *)
(***************************************************************************)
\* RevolutWebhookManager() with the four environment variables set
NewManager ==
  [type |-> "RevolutWebhookManager", api_key |-> "REVOLUT_API_KEY",
   secret |-> "REVOLUT_SECRET", base_url |-> "REVOLUT_BASE_URL",
   api_version |-> "REVOLUT_API_VERSION", webhook_signing_secret |-> None]

Init ==
  /\ global_webhook_manager = NoneObj
  /\ now = Now0
  /\ call = [op |-> "none"]
  /\ secret_captured = FALSE

\* run_demo: global_webhook_manager = RevolutWebhookManager(); __init__
\* raises ValueError when an environment variable is missing
construct(env_set) ==
  /\ global_webhook_manager = NoneObj
  /\ global_webhook_manager' = IF env_set THEN NewManager ELSE NoneObj
  /\ call' = [op |-> "__init__",
              result |-> IF env_set THEN ReturnNone ELSE Raise("ValueError")]
  /\ UNCHANGED <<now, secret_captured>>

call_setup_webhook(resp) ==
  /\ global_webhook_manager # NoneObj
  /\ global_webhook_manager' =
       [global_webhook_manager EXCEPT !.webhook_signing_secret =
          setup_webhook_secret(@, resp)]
  /\ secret_captured' = (secret_captured \/ captures(resp))
  /\ call' = [op |-> "setup_webhook", resp |-> resp,
              before |-> global_webhook_manager,
              result |-> setup_webhook_return(resp)]
  /\ UNCHANGED now

call_validate_timestamp(timestamp_header) ==
  /\ global_webhook_manager # NoneObj
  /\ \E r \in validate_timestamp(timestamp_header, now) :
       call' = [op |-> "validate_timestamp", ts |-> timestamp_header,
                at |-> now, before |-> global_webhook_manager, result |-> r]
  /\ UNCHANGED <<global_webhook_manager, now, secret_captured>>

call_validate_signature(signature_header, timestamp_header, raw_payload) ==
  /\ global_webhook_manager # NoneObj
  /\ call' = [op |-> "validate_signature", sig |-> signature_header,
              ts |-> timestamp_header, body |-> raw_payload, at |-> now,
              before |-> global_webhook_manager,
              result |-> validate_signature(signature_header,
                           timestamp_header, raw_payload,
                           global_webhook_manager.webhook_signing_secret)]
  /\ UNCHANGED <<global_webhook_manager, now, secret_captured>>

\* an accepted notification uses the secret up
post_webhook_revolut_consumes_secret(request) ==
  /\ \E out \in handle_revolut_webhook(request, global_webhook_manager, now) :
       /\ call' = [op |-> "handle_revolut_webhook", request |-> request,
                   at |-> now, before |-> global_webhook_manager,
                   trace |-> out.trace, response |-> out.response]
       /\ global_webhook_manager' =
            IF out.trace.processed
            THEN [global_webhook_manager EXCEPT !.webhook_signing_secret = None]
            ELSE global_webhook_manager
  /\ UNCHANGED <<now, secret_captured>>

\* POST /webhook/revolut
post_webhook_revolut(request) ==
  /\ \E out \in handle_revolut_webhook(request, global_webhook_manager, now) :
       call' = [op |-> "handle_revolut_webhook", request |-> request,
                at |-> now, before |-> global_webhook_manager,
                trace |-> out.trace, response |-> out.response]
  /\ UNCHANGED <<global_webhook_manager, now, secret_captured>>

\* datetime.now(timezone.utc) advances by a millisecond
tick ==
  /\ now < Now0 + MaxTicks
  /\ now' = now + 1
  /\ call' = [op |-> "none"]
  /\ UNCHANGED <<global_webhook_manager, secret_captured>>

Next ==
  \/ \E env_set \in BOOLEAN : construct(env_set)
  \/ \E resp \in SetupResponses : call_setup_webhook(resp)
  \/ \E t \in TimestampHeaders : call_validate_timestamp(t)
  \/ \E t \in SignatureTimestamps, b \in SignatureBodies :
       \E s \in SignatureHeaders(t, b) : call_validate_signature(s, t, b)
  \/ \E request \in Requests : post_webhook_revolut(request)
  \/ tick

Spec == Init /\ [][Next]_vars

(***************************************************************************)
(* Vocabulary of the properties                                            *)
(***************************************************************************)
SecretOf(manager) ==
  IF manager = NoneObj THEN None ELSE manager.webhook_signing_secret

MissingTimestamp == HTTPException(400, "Missing timestamp header")
InvalidTimestampFormat == HTTPException(400, "Invalid timestamp format")
TimestampTooOld == HTTPException(400, "Webhook timestamp is too old")
MissingSignature == HTTPException(400, "Missing signature header")
SecretUnavailable == HTTPException(500, "Missing webhook signing secret")
SignatureValidationFailed == HTTPException(400, "Signature validation failed")

\* the header is an integer count of milliseconds
IsInteger(timestamp_header) ==
  ~Falsy(timestamp_header) /\ int(timestamp_header).ok

\* |at - t| in milliseconds, for t of at most nine digits
Distance(timestamp_header, at) ==
  LET p == int(timestamp_header)
  IN Abs(at - (IF p.neg THEN -MagVal(p.mag) ELSE MagVal(p.mag)))

\* |at - t| <= 300 s
WithinTolerance(timestamp_header, at) ==
  /\ IsInteger(timestamp_header)
  /\ Len(int(timestamp_header).mag) <= 9
  /\ Distance(timestamp_header, at) <= ToleranceSeconds * MsPerSecond

\* some whitespace-trimmed candidate of the header is the provider's tag
SomeCandidateMatches(signature_header, secret, timestamp_header, raw_payload) ==
  /\ ~Falsy(signature_header)
  /\ \E i \in 1..Len(split(signature_header)) :
       strip(split(signature_header)[i])
         = revolut_signature(secret, timestamp_header, raw_payload)

IsWebhook == call.op = "handle_revolut_webhook"

\* process_webhook ran inside the last request
Authenticated == IsWebhook /\ call.trace # NoTrace

CallTimestamp == get(call.request.headers, "revolut-request-timestamp")
CallSignature == get(call.request.headers, "revolut-signature")
CallSecret == SecretOf(call.before)

C2_TimestampErrorFirst ==
  (Authenticated /\ ~WithinTolerance(CallTimestamp, call.at))
    => /\ ~call.trace.sig_entered
       /\ call.trace.sig_result = NotCalled
       /\ call.trace.result = call.trace.ts_result
       /\ Falsy(CallTimestamp) => call.trace.result = MissingTimestamp
       /\ (~Falsy(CallTimestamp) /\ ~IsInteger(CallTimestamp))
            => call.trace.result = InvalidTimestampFormat
       /\ IsInteger(CallTimestamp)
            => call.trace.result \in
                 {TimestampTooOld, InvalidTimestampFormat,
                  Raise("OverflowError"), Raise("OSError")}
       /\ (IsInteger(CallTimestamp) /\ Len(int(CallTimestamp).mag) <= 9)
            => call.trace.result = TimestampTooOld

\* a stale timestamp with a signature that does not match the stored secret
C2_Witness ==
  /\ Authenticated
  /\ CallSecret = K1
  /\ CallTimestamp = str(Now0 - ToleranceSeconds * MsPerSecond - 1)
  /\ CallSignature = revolut_signature(K2, CallTimestamp, call.request.body)
  /\ call.trace.result = TimestampTooOld

(***************************************************************************)
(* C3                                                                      *)
(***************************************************************************)
\* C3: for an integer timestamp header t and the instant of receipt,
\* validate_timestamp passes if and only if |now - t| <= 300 s, in the past
\* and in the future alike; at 301 s it rejects the header as too old.
C3_FreshnessWindow ==
  (call.op = "validate_timestamp" /\ IsInteger(call.ts))
    => /\ (call.result = ReturnTrue) <=> WithinTolerance(call.ts, call.at)
       /\ (/\ Len(int(call.ts).mag) <= 9
           /\ Distance(call.ts, call.at) = (ToleranceSeconds + 1) * MsPerSecond)
            => call.result = TimestampTooOld

\* exactly 300 s in the future is accepted
C3_Witness ==
  /\ call.op = "validate_timestamp"
  /\ call.at = Now0
  /\ call.ts = TsFutureEdge
  /\ Distance(call.ts, call.at) = ToleranceSeconds * MsPerSecond
  /\ call.result = ReturnTrue

(***************************************************************************)
(* C4                                                                      *)
(***************************************************************************)
\* C4: with a provisioned secret validate_signature accepts a header if and
\* only if at least one whitespace-trimmed candidate equals the expected
\* tag, also when another candidate cannot be compared.
C4_AnyCandidateMatches ==
  (/\ call.op = "validate_signature"
   /\ ~Falsy(CallSecret)
   /\ ~Falsy(call.sig))
    => ((call.result = ReturnTrue)
          <=> SomeCandidateMatches(call.sig, CallSecret, call.ts, call.body))

(***************************************************************************)
(* C5                                                                      *)
(***************************************************************************)
\* C5: a signature header that is absent, empty or made of whitespace only
\* is rejected by validate_signature as a missing signature header.
C5_BlankHeaderIsMissing ==
  (/\ call.op = "validate_signature"
   /\ (call.sig = None \/ strip(call.sig) = <<>>))
    => call.result = MissingSignature

(***************************************************************************)
(* C6                                                                      *)
(***************************************************************************)
\* C6: the endpoint reaches the payload and returns its success response
\* only for a request whose timestamp is within the tolerance, with a
\* provisioned secret and with a candidate that equals the expected tag;
\* every other request ends without the payload being reached.
C6_ProcessedOnlyIfAuthentic ==
  IsWebhook
    => /\ (call.response.status_code = 200) <=> call.trace.processed
       /\ call.trace.processed
            => /\ call.before # NoneObj
               /\ WithinTolerance(CallTimestamp, call.at)
               /\ ~Falsy(CallSecret)
               /\ SomeCandidateMatches(CallSignature, CallSecret,
                                       CallTimestamp, call.request.body)
       /\ call.trace.processed <=> (call.trace.result = ReturnNone)

\* accepted on the second candidate of the header
C6_Witness ==
  /\ IsWebhook
  /\ call.trace.processed
  /\ call.response = Response(200, "{\"status\": 204}")
  /\ CallSecret = K1
  /\ CallSignature =
       Join(<<revolut_signature(K2, CallTimestamp, call.request.body),
              revolut_signature(K1, CallTimestamp, call.request.body)>>)

(***************************************************************************)
(* C7                                                                      *)
(***************************************************************************)
\* C7: the endpoint answers every rejection of the timestamp or of the
\* signature with status 400 and only the secret-unavailable rejection
\* with status 500.
C7_ClientErrorsAre400 ==
  (Authenticated /\ call.trace.result.exc = "HTTPException")
    => call.response.status_code
         = (IF call.trace.result = SecretUnavailable THEN 500 ELSE 400)

C9_AuthenticationIsPure ==
  [][call'.op \in {"validate_timestamp", "validate_signature",
                   "handle_revolut_webhook"}
       => /\ global_webhook_manager' = global_webhook_manager
          /\ call'.before = global_webhook_manager
          /\ (/\ IsWebhook
              /\ call'.op = "handle_revolut_webhook"
              /\ call'.request = call.request
              /\ now' = now)
               => call'.response = call.response]_vars

\* the manager after an accepted notification is the manager before it
C9_Witness ==
  /\ IsWebhook
  /\ call.trace.processed
  /\ global_webhook_manager = call.before
  /\ SecretOf(global_webhook_manager) = K2

(***************************************************************************)
(* C10                                                                     *)
(***************************************************************************)
\* C10: the stored secret changes only in a setup_webhook call whose
\* response has status 200 and carries signing_secret; a call that fails
\* (exception of the request, other status, no signing_secret) leaves it
\* as it was; and as long as no call has captured a secret no webhook is
\* accepted.
C10_SecretOnlyFromSetup ==
  [][/\ SecretOf(global_webhook_manager') # SecretOf(global_webhook_manager)
          => /\ call'.op = "setup_webhook"
             /\ ~call'.resp.raises
             /\ call'.resp.status_code = 200
             /\ call'.resp.has_secret
     /\ (/\ call'.op = "setup_webhook"
         /\ \/ call'.resp.raises
            \/ call'.resp.status_code # 200
            \/ ~call'.resp.has_secret)
          => SecretOf(global_webhook_manager') = SecretOf(global_webhook_manager)
     /\ (~secret_captured' /\ call'.op = "handle_revolut_webhook")
          => /\ ~call'.trace.processed
             /\ call'.response.status_code # 200]_vars

\* a response of status 401 that carries a secret leaves the manager
\* without one
C10_Witness ==
  /\ call.op = "setup_webhook"
  /\ call.resp.status_code = 401
  /\ call.resp.has_secret
  /\ call.resp.signing_secret = K1
  /\ ~secret_captured
  /\ SecretOf(global_webhook_manager) = None

====
